---- MODULE Spec2Model ----
(***************************************************************************)
(* State-machine model of IsaacGymWrapper                                  *)
(* (src/mppiisaac/planner/isaacgym_wrapper.py): the actor descriptor list, *)
(* the root-state tensor the wrapper holds, the physics backend's own root *)
(* state, the snapshot, the DOF command sinks and the obstacle feed.       *)
(*                                                                         *)
(* Lengths are in tenths of a world unit (delta_pos = 0.1 is 1).  Tensors  *)
(* are functions with the 0-based index sets of the source:                *)
(* tensor[env][actor] is one 13-column root-state row, kept as the record  *)
(* [pos (columns 0:3), ori (3:7), vel (7:10), ang (10:13)].                *)
(*                                                                         *)
(* The simulator is an external library.  Its tensor API is modelled by    *)
(* what the calls of the source rely on: acquire_* hands out a buffer,     *)
(* refresh_* copies the physics state into that buffer, set_*_tensor       *)
(* copies rows of the given tensor into the physics state.                 *)
(***************************************************************************)
EXTENDS Integers, Sequences, FiniteSets, TLC

VARIABLES
    phase,                  \* "new" before __init__, "ready" after it returned, "failed" when it raised
    env_cfg,                \* self.env_cfg: the descriptor list
    num_envs,               \* self.num_envs
    viewer,                 \* self.cfg.viewer / self.viewer is not None
    restarted,              \* self.restarted
    _root_state,            \* self._root_state: the wrapped root-state buffer
    sim_root_state,         \* the physics backend's root state of the current sim
    saved_root_state,       \* self.saved_root_state
    _visualize_link_present,\* self._visualize_link_present
    visualize_link_buffer,  \* self.visualize_link_buffer
    robot_indices,          \* self.robot_indices
    obstacle_indices,       \* self.obstacle_indices
    _robot_indices,         \* self._robot_indices: read by the accessors; None while never assigned
    dof_sinks,              \* last tensor handed to each of the backend's three DOF calls
    seen_obstacles,         \* history: obstacle id -> name of the actor it was first reconciled with
    lastOp,                 \* history: the operation that ran last and how it ended
    ops                     \* history: operations run so far, counted where a run's length is bounded

vars == <<phase, env_cfg, num_envs, viewer, restarted, _root_state, sim_root_state,
          saved_root_state, _visualize_link_present, visualize_link_buffer,
          robot_indices, obstacle_indices, _robot_indices, dof_sinks,
          seen_obstacles, lastOp, ops>>

-----------------------------------------------------------------------------
(* Bounds of the model *)

MaxEnvs == 2        \* num_envs ranges over 1..MaxEnvs
MaxCoord == 1       \* step() is explored while every coordinate stays within -MaxCoord..MaxCoord
MaxTrace == 1       \* step() is explored while the link trace holds at most MaxTrace entries
MaxOps == 6         \* operations in one run of the specifications that count them
MaxFeedOps == 4     \* operations in one run of the obstacle-feed specification

(* Optional values: None is the empty sequence, Some(x) the one-element one. *)
None == <<>>
Some(x) == <<x>>
IsNone(o) == Len(o) = 0
Val(o) == o[1]

(* ActorWrapper.handle before registration (None) *)
NoHandle == -1

Zero3 == <<0, 0, 0>>
IdQuat == <<0, 0, 0, 1>>

-----------------------------------------------------------------------------
(* Descriptors: ActorWrapper.  dofs is what the backend's get_actor_dof_dict *)
(* reports for the descriptor's asset, in index order.                       *)

ActorWrapper(type, name, dof_mode, init_pos, size, dofs, differential_drive, visualize_link) ==
    [type |-> type, name |-> name, dof_mode |-> dof_mode,
     init_pos |-> init_pos, init_ori |-> IdQuat, size |-> size,
     handle |-> NoHandle, dofs |-> dofs,
     differential_drive |-> differential_drive,
     wheel_radius |-> IF differential_drive THEN 1 ELSE 0,
     wheel_base |-> IF differential_drive THEN 5 ELSE 0,
     left_wheel_joints |-> IF differential_drive THEN {"wl"} ELSE {},
     right_wheel_joints |-> IF differential_drive THEN {"wr"} ELSE {},
     visualize_link |-> visualize_link]

PointRobot == ActorWrapper("robot", "point", "velocity", Zero3, 1, <<"j0", "j1">>, FALSE, TRUE)
ArmRobot   == ActorWrapper("robot", "arm", "position", <<1, 0, 0>>, 1, <<"j0">>, FALSE, FALSE)
GoalActor  == ActorWrapper("sphere", "goal", "velocity", <<0, 1, 0>>, 1, <<>>, FALSE, FALSE)
Sphere0    == ActorWrapper("sphere", "sphere0", "velocity", <<1, 1, 0>>, 1, <<>>, FALSE, FALSE)
Sphere1    == ActorWrapper("sphere", "sphere1", "velocity", <<0, 0, 1>>, 1, <<>>, FALSE, FALSE)
BoxerRobot == ActorWrapper("robot", "boxer", "velocity", Zero3, 1, <<"wl", "wr">>, TRUE, FALSE)
HeijnRobot == ActorWrapper("robot", "heijn", "velocity", Zero3, 1, <<"j0", "wl", "wr">>, TRUE, FALSE)
Gripper    == ActorWrapper("robot", "panda_gripper", "effort", Zero3, 1, <<"j0", "f1", "f2">>, FALSE, FALSE)
ExtraBox   == ActorWrapper("box", "extra", "velocity", <<1, 0, 1>>, 1, <<>>, FALSE, FALSE)

(* The actor lists the constructor is given (load_actor_cfgs(actors)) *)
Configs ==
    { <<GoalActor, PointRobot>>,
      <<GoalActor, PointRobot, ArmRobot>>,
      <<PointRobot, Sphere0>>,
      <<GoalActor, Sphere0>>,
      <<PointRobot, Sphere0, Sphere1>>,
      <<BoxerRobot>>,
      <<HeijnRobot, BoxerRobot>>,
      <<Gripper>> }

Names(cfg) == [i \in 1..Len(cfg) |-> cfg[i].name]

UniqueNames(cfg) == \A i, j \in 1..Len(cfg) : cfg[i].name = cfg[j].name => i = j

(* [i for i, a in enumerate(env_cfg) if a.type == "robot"], 0-based, in order *)
RECURSIVE RobotIdxFrom(_, _)
RobotIdxFrom(cfg, i) ==
    IF i > Len(cfg) THEN <<>>
    ELSE (IF cfg[i].type = "robot" THEN <<i - 1>> ELSE <<>>) \o RobotIdxFrom(cfg, i + 1)

RobotIndices(cfg) == RobotIdxFrom(cfg, 1)

RECURSIVE ObstIdxFrom(_, _)
ObstIdxFrom(cfg, i) ==
    IF i > Len(cfg) THEN <<>>
    ELSE (IF cfg[i].type \in {"sphere", "box"} /\ cfg[i].name # "dummy" THEN <<i - 1>> ELSE <<>>)
         \o ObstIdxFrom(cfg, i + 1)

ObstacleIndices(cfg) == ObstIdxFrom(cfg, 1)

DofModes == {"effort", "velocity", "position"}

Robots(cfg) == SelectSeq(cfg, LAMBDA a : a.type = "robot")

-----------------------------------------------------------------------------
(* start_sim *)

InitialRow(a) == [pos |-> a.init_pos, ori |-> a.init_ori, vel |-> Zero3, ang |-> Zero3]

(* The root state of a freshly prepared sim: every actor at its creation pose *)
InitialRootState(cfg, n) ==
    [e \in 0..(n - 1) |-> [i \in 0..(Len(cfg) - 1) |-> InitialRow(cfg[i + 1])]]

(* Lines 141-158: the dummy obstacle is appended on the second start_sim only *)
DummyActor == ActorWrapper("sphere", "dummy", "velocity", <<0, 0, -100>>, 1, <<>>, FALSE, FALSE)

WithDummy(cfg, rst) == IF rst = 2 THEN Append(cfg, DummyActor) ELSE cfg

(* _create_actor raises ValueError for a robot whose dof_mode is none of the three *)
CreateActorFails(a) == a.type = "robot" /\ a.dof_mode \notin DofModes

(* Position (1-based) of the first descriptor _create_actor fails on, 0 if none *)
FirstFailing(cfg) ==
    IF \E i \in 1..Len(cfg) : CreateActorFails(cfg[i])
    THEN CHOOSE i \in 1..Len(cfg) :
            CreateActorFails(cfg[i]) /\ \A j \in 1..(i - 1) : ~CreateActorFails(cfg[j])
    ELSE 0

(* Lines 176-179: actor_cfg.handle = create_actor(...), the actor's index in its env *)
AssignHandles(cfg, upto) ==
    [i \in 1..Len(cfg) |-> IF i <= upto THEN [cfg[i] EXCEPT !.handle = i - 1] ELSE cfg[i]]

(* Lines 220-234: the joint-pose tensor; dof_state is rebound in every iteration,
   so the tensor is the last robot's, and it is unbound when there is no robot *)
InitialDofState(cfg, n) ==
    LET rs == Robots(cfg)
        last == rs[Len(rs)]
    IN  [e \in 0..(n - 1) |-> [k \in 1..(2 * Len(last.dofs)) |-> 0]]

(* What one run of start_sim leaves behind.  stage names how far it got:
   "actors" (ValueError in _create_actor, lines 176-179),
   "dof_state" (UnboundLocalError at line 231), "done". *)
StartSim(cfg0, rst, n) ==
    LET cfg1 == WithDummy(cfg0, rst)
        bad  == FirstFailing(cfg1)
        cfg2 == AssignHandles(cfg1, IF bad = 0 THEN Len(cfg1) ELSE bad - 1)
    IN  [stage |-> IF bad # 0 THEN "actors"
                   ELSE IF Len(Robots(cfg2)) = 0 THEN "dof_state" ELSE "done",
         env_cfg |-> cfg2,
         restarted |-> rst + 1,
         present |-> \E i \in 1..Len(cfg2) : cfg2[i].visualize_link,
         root |-> InitialRootState(cfg2, n),
         robot_indices |-> RobotIndices(cfg2),
         obstacle_indices |-> ObstacleIndices(cfg2)]

(* Result of a lookup that raised (ValueError, AttributeError, IndexError) *)
Err == NoHandle - 1

Op(name, ok, actor, value) == [op |-> name, ok |-> ok, actor |-> actor, value |-> value]

EmptySinks == [dof_state |-> None, velocity_target |-> None, actuation_force |-> None]

(* The assignments of start_sim, given its outcome r.  Attributes assigned
   after the point where it raised keep their previous values. *)
ApplyStartSim(r) ==
    /\ env_cfg' = r.env_cfg
    /\ restarted' = r.restarted
    /\ IF r.stage = "actors"
       THEN UNCHANGED <<_root_state, sim_root_state, saved_root_state,
                        _visualize_link_present, visualize_link_buffer,
                        robot_indices, obstacle_indices, dof_sinks>>
       ELSE /\ _root_state' = r.root
            /\ sim_root_state' = r.root
            /\ saved_root_state' = None
            /\ _visualize_link_present' = r.present
            /\ visualize_link_buffer' = IF r.present THEN <<>> ELSE visualize_link_buffer
            /\ robot_indices' = r.robot_indices
            /\ obstacle_indices' = r.obstacle_indices
            /\ dof_sinks' = IF r.stage = "done"
                            THEN [EmptySinks EXCEPT !.dof_state =
                                      Some(InitialDofState(r.env_cfg, num_envs))]
                            ELSE EmptySinks

-----------------------------------------------------------------------------
(* __init__ *)

Init ==
    /\ phase = "new"
    /\ env_cfg \in Configs
    /\ num_envs \in 1..MaxEnvs
    /\ viewer \in BOOLEAN
    /\ restarted = 0
    /\ _root_state = <<>>
    /\ sim_root_state = <<>>
    /\ saved_root_state = None
    /\ _visualize_link_present = FALSE
    /\ visualize_link_buffer = <<>>
    /\ robot_indices = <<>>
    /\ obstacle_indices = <<>>
    /\ _robot_indices = None
    /\ dof_sinks = EmptySinks
    /\ seen_obstacles = <<>>
    /\ lastOp = Op("none", TRUE, Err, Zero3)
    /\ ops = 0

Construct ==
    /\ phase = "new"
    /\ LET r == StartSim(env_cfg, 1, num_envs)
       IN  /\ ApplyStartSim(r)
           /\ phase' = IF r.stage = "done" THEN "ready" ELSE "failed"
           /\ lastOp' = Op("__init__", r.stage = "done", Err, Zero3)
    /\ UNCHANGED <<num_envs, viewer, _robot_indices, seen_obstacles>>

-----------------------------------------------------------------------------
(* Name / role resolution *)

NumActors == IF DOMAIN _root_state = {} THEN 0 ELSE Cardinality(DOMAIN _root_state[0])   \* the tensor's actor dimension

(* [a.name for a in env_cfg].index(name): the first match, ValueError if absent *)
IndexOfName(cfg, name) ==
    IF \E i \in 1..Len(cfg) : cfg[i].name = name
    THEN (CHOOSE i \in 1..Len(cfg) :
             cfg[i].name = name /\ \A j \in 1..(i - 1) : cfg[j].name # name) - 1
    ELSE Err

_get_actor_index_by_name(name) == IndexOfName(env_cfg, name)

(* self._robot_indices[robot_idx]: AttributeError while the attribute is unset *)
_get_actor_index_by_robot_index(robot_idx) ==
    IF IsNone(_robot_indices) THEN Err
    ELSE IF robot_idx + 1 \in 1..Len(Val(_robot_indices))
         THEN Val(_robot_indices)[robot_idx + 1] ELSE Err

Actors == 0..(NumActors - 1)
Envs == 0..(num_envs - 1)

InRange(actor_idx) == actor_idx \in Actors

(* torch.index_select(self._root_state, 1, idx)[:, 0, cols]: one row per env;
   None when the lookup or the index raised *)
SelectColumns(actor_idx, col) ==
    IF actor_idx = Err \/ ~InRange(actor_idx) THEN None
    ELSE Some([e \in 0..(num_envs - 1) |-> _root_state[e][actor_idx][col]])

get_actor_position_by_actor_index(actor_idx) == SelectColumns(actor_idx, "pos")
get_actor_position_by_name(name) ==
    get_actor_position_by_actor_index(_get_actor_index_by_name(name))
get_actor_position_by_robot_index(robot_idx) ==
    get_actor_position_by_actor_index(_get_actor_index_by_robot_index(robot_idx))

get_actor_velocity_by_actor_index(idx) == SelectColumns(idx, "vel")
get_actor_velocity_by_name(name) ==
    get_actor_velocity_by_actor_index(_get_actor_index_by_name(name))
get_actor_velocity_by_robot_index(robot_idx) ==
    get_actor_velocity_by_actor_index(_get_actor_index_by_robot_index(robot_idx))

get_actor_orientation_by_actor_index(idx) == SelectColumns(idx, "ori")
get_actor_orientation_by_name(name) ==
    get_actor_orientation_by_actor_index(_get_actor_index_by_name(name))
get_actor_orientation_by_robot_index(robot_idx) ==
    get_actor_orientation_by_actor_index(_get_actor_index_by_robot_index(robot_idx))

-----------------------------------------------------------------------------
(* Backend calls on the root state *)

(* set_actor_root_state_tensor_indexed(sim, tensor, indices, count): the rows of
   the flat (num_envs * actors) tensor named by indices are copied into the
   physics state; flat row k is actor k % actors of env k // actors *)
SetRootStateIndexed(sim, tensor, indices) ==
    [e \in DOMAIN sim |->
        [i \in DOMAIN sim[e] |->
            IF e * NumActors + i \in indices THEN tensor[e][i] ELSE sim[e][i]]]

(* A full push that reaches the first replica only *)
SetRootState_FirstEnv(sim, tensor) ==
    [e \in DOMAIN sim |-> IF e = 0 THEN tensor[e] ELSE sim[e]]

(* set_actor_root_state_tensor(sim, tensor): every row is copied *)
SetRootState(sim, tensor) == tensor

-----------------------------------------------------------------------------
(* Setters.  value is the right-hand side after broadcasting: one 3-vector per env *)

Broadcast(v) == [e \in 0..(num_envs - 1) |-> v]

(* The slice write without its actor index: self._root_state[:, :, col] = value *)
WriteColumns_EveryActor(tensor, actor_idx, col, value) ==
    [e \in DOMAIN tensor |->
        [i \in DOMAIN tensor[e] |-> [tensor[e][i] EXCEPT ![col] = value[e]]]]

(* self._root_state[:, actor_idx, col] = value *)
WriteColumns(tensor, actor_idx, col, value) ==
    [e \in DOMAIN tensor |->
        [i \in DOMAIN tensor[e] |->
            IF i = actor_idx THEN [tensor[e][i] EXCEPT ![col] = value[e]] ELSE tensor[e][i]]]

(* Lines 360-366 and 378-384: the slice write, then the indexed push of
   torch.tensor([actor_idx]) with count 1 *)
SetColumnsByActorIndex(col, value, actor_idx) ==
    IF actor_idx = Err \/ ~InRange(actor_idx)
    THEN UNCHANGED <<_root_state, sim_root_state>>
    ELSE LET t == WriteColumns(_root_state, actor_idx, col, value)
         IN  /\ _root_state' = t
             /\ sim_root_state' = SetRootStateIndexed(sim_root_state, t, {actor_idx})

SetterOk(actor_idx) == actor_idx # Err /\ InRange(actor_idx)

PosVals == { <<0, 0, 0>>, <<1, 0, 0>> }
VelVals == { <<0, 0, 0>>, <<1, 0, 0>> }
LookupNames == { env_cfg[i].name : i \in 1..Len(env_cfg) } \cup { "nobody" }

Rest == <<phase, env_cfg, num_envs, viewer, restarted, saved_root_state,
          _visualize_link_present, visualize_link_buffer, robot_indices,
          obstacle_indices, _robot_indices, dof_sinks, seen_obstacles>>

set_actor_position_by_actor_index(position, actor_idx) ==
    /\ phase = "ready"
    /\ SetColumnsByActorIndex("pos", Broadcast(position), actor_idx)
    /\ lastOp' = Op("set_position", SetterOk(actor_idx), actor_idx, position)
    /\ UNCHANGED Rest

set_actor_position_by_name(position, name) ==
    /\ phase = "ready"
    /\ LET actor_idx == IndexOfName(env_cfg, name)
       IN  /\ SetColumnsByActorIndex("pos", Broadcast(position), actor_idx)
           /\ lastOp' = Op("set_position", SetterOk(actor_idx), actor_idx, position)
    /\ UNCHANGED Rest

set_actor_position_by_robot_index(position, robot_idx) ==
    /\ phase = "ready"
    /\ LET actor_idx == _get_actor_index_by_robot_index(robot_idx)
       IN  /\ SetColumnsByActorIndex("pos", Broadcast(position), actor_idx)
           /\ lastOp' = Op("set_position", SetterOk(actor_idx), actor_idx, position)
    /\ UNCHANGED Rest

set_actor_velocity_by_actor_index(velocity, actor_idx) ==
    /\ phase = "ready"
    /\ SetColumnsByActorIndex("vel", Broadcast(velocity), actor_idx)
    /\ lastOp' = Op("set_velocity", SetterOk(actor_idx), actor_idx, velocity)
    /\ UNCHANGED Rest

set_actor_velocity_by_name(velocity, name) ==
    /\ phase = "ready"
    /\ LET actor_idx == IndexOfName(env_cfg, name)
       IN  /\ SetColumnsByActorIndex("vel", Broadcast(velocity), actor_idx)
           /\ lastOp' = Op("set_velocity", SetterOk(actor_idx), actor_idx, velocity)
    /\ UNCHANGED Rest

set_actor_velocity_by_robot_index(velocity, robot_idx) ==
    /\ phase = "ready"
    /\ LET actor_idx == _get_actor_index_by_robot_index(robot_idx)
       IN  /\ SetColumnsByActorIndex("vel", Broadcast(velocity), actor_idx)
           /\ lastOp' = Op("set_velocity", SetterOk(actor_idx), actor_idx, velocity)
    /\ UNCHANGED Rest

SetPosition ==
    \E p \in PosVals :
        \/ \E i \in 0..Len(env_cfg) : set_actor_position_by_actor_index(p, i)
        \/ \E nm \in LookupNames : set_actor_position_by_name(p, nm)
        \/ \E k \in 0..(Len(robot_indices) - 1) : set_actor_position_by_robot_index(p, k)

SetVelocity ==
    \E v \in VelVals :
        \/ \E i \in 0..Len(env_cfg) : set_actor_velocity_by_actor_index(v, i)
        \/ \E nm \in LookupNames : set_actor_velocity_by_name(v, nm)
        \/ \E k \in 0..(Len(robot_indices) - 1) : set_actor_velocity_by_robot_index(v, k)

-----------------------------------------------------------------------------
(* step *)

MaxEvents == 1      \* viewer events delivered to one step()

Add3(a, b) == <<a[1] + b[1], a[2] + b[2], a[3] + b[3]>>

(* gym.simulate: one time step of the physics, here pos += vel for every actor *)
Simulate(sim) ==
    [e \in DOMAIN sim |->
        [i \in DOMAIN sim[e] |-> [sim[e][i] EXCEPT !.pos = Add3(sim[e][i].pos, sim[e][i].vel)]]]

WithinBounds(t) ==
    \A e \in DOMAIN t : \A i \in DOMAIN t[e] : \A k \in 1..3 :
        t[e][i].pos[k] \in (-MaxCoord)..MaxCoord

(* The actor whose link is traced: the last robot with visualize_link
   (robot_rigid_body_viz_idx, lines 483-486), as a 0-based actor index *)
VizActor(cfg) ==
    (CHOOSE i \in 1..Len(cfg) :
        /\ cfg[i].type = "robot" /\ cfg[i].visualize_link
        /\ \A j \in (i + 1)..Len(cfg) : ~(cfg[j].type = "robot" /\ cfg[j].visualize_link)) - 1

(* self.visualize_link_pos.clone(): the traced link's position in every env,
   the link standing at its actor's root *)
VisualizeLinkPos(t) == [e \in DOMAIN t |-> t[e][VizActor(env_cfg)].pos]

Events == {"up", "down", "left", "right", "high", "low"}

EventSeqs == UNION { [1..n -> Events] : n \in 0..MaxEvents }

(* Lines 622-633: goal_pos[0, k] +/-= delta_pos changes env 0 of the copy *)
delta_pos == 1

Nudge(p, action) ==
    CASE action = "up"    -> <<p[1], p[2] - delta_pos, p[3]>>
      [] action = "down"  -> <<p[1], p[2] + delta_pos, p[3]>>
      [] action = "left"  -> <<p[1] + delta_pos, p[2], p[3]>>
      [] action = "right" -> <<p[1] - delta_pos, p[2], p[3]>>
      [] action = "high"  -> <<p[1], p[2], p[3] + delta_pos>>
      [] action = "low"   -> <<p[1], p[2], p[3] - delta_pos>>
      [] OTHER            -> p

(* One iteration of interactive_goal_update on the pair <<buffer, sim>>:
   read the goal's position, nudge env 0, write it back by name *)
GoalEvent(st, action) ==
    LET buf == st[1]
        idx == IndexOfName(env_cfg, "goal")
        goal_pos == [e \in DOMAIN buf |->
                        IF e = 0 THEN Nudge(buf[e][idx].pos, action) ELSE buf[e][idx].pos]
        t == WriteColumns(buf, idx, "pos", goal_pos)
    IN  <<t, SetRootStateIndexed(st[2], t, {idx})>>

RECURSIVE GoalEvents(_, _)
GoalEvents(st, evs) ==
    IF Len(evs) = 0 THEN st ELSE GoalEvents(GoalEvent(st, Head(evs)), Tail(evs))

interactive_goal == TRUE    \* the constructor's default

(* Lines 636-652.  events is what query_viewer_action_events returns. *)
step(events) ==
    /\ phase = "ready"
    /\ LET sim1 == Simulate(sim_root_state)
           goal == IndexOfName(env_cfg, "goal")
           raises == interactive_goal /\ Len(events) > 0 /\ ~(goal # Err /\ InRange(goal))
           st == IF interactive_goal /\ ~raises
                 THEN GoalEvents(<<sim1, sim1>>, events) ELSE <<sim1, sim1>>
       IN  /\ WithinBounds(st[1]) /\ WithinBounds(st[2])
           /\ _visualize_link_present => Len(visualize_link_buffer) < MaxTrace
           /\ _root_state' = st[1]
           /\ sim_root_state' = st[2]
           /\ visualize_link_buffer' =
                 IF _visualize_link_present
                 THEN Append(visualize_link_buffer, VisualizeLinkPos(sim1))
                 ELSE visualize_link_buffer
           /\ lastOp' = Op("step", ~raises, Err, Zero3)
    /\ UNCHANGED <<phase, env_cfg, num_envs, viewer, restarted, saved_root_state,
                   _visualize_link_present, robot_indices, obstacle_indices,
                   _robot_indices, dof_sinks, seen_obstacles>>

(* A session without a viewer has no event source *)
Step == \E events \in (IF viewer THEN EventSeqs ELSE {<<>>}) : step(events)

-----------------------------------------------------------------------------
(* Snapshot / restore *)

(* Lines 659-660: self._root_state.clone() *)
save_root_state ==
    /\ phase = "ready"
    /\ saved_root_state' = Some(_root_state)
    /\ lastOp' = Op("save_root_state", TRUE, Err, Zero3)
    /\ UNCHANGED <<phase, env_cfg, num_envs, viewer, restarted, _root_state, sim_root_state,
                   _visualize_link_present, visualize_link_buffer, robot_indices,
                   obstacle_indices, _robot_indices, dof_sinks, seen_obstacles>>

(* reset_root_state without the None test: the buffer is pushed when nothing was saved *)
reset_root_state_Unguarded ==
    /\ phase = "ready"
    /\ visualize_link_buffer' = IF _visualize_link_present THEN <<>> ELSE visualize_link_buffer
    /\ sim_root_state' = IF ~IsNone(saved_root_state)
                         THEN SetRootState(sim_root_state, Val(saved_root_state))
                         ELSE SetRootState(sim_root_state, _root_state)
    /\ lastOp' = Op("reset_root_state", TRUE, Err, Zero3)
    /\ UNCHANGED <<phase, env_cfg, num_envs, viewer, restarted, _root_state, saved_root_state,
                   _visualize_link_present, robot_indices, obstacle_indices,
                   _robot_indices, dof_sinks, seen_obstacles>>

(* Lines 665-672 *)
reset_root_state ==
    /\ phase = "ready"
    /\ visualize_link_buffer' = IF _visualize_link_present THEN <<>> ELSE visualize_link_buffer
    /\ sim_root_state' = IF ~IsNone(saved_root_state)
                         THEN SetRootState(sim_root_state, Val(saved_root_state))
                         ELSE sim_root_state
    /\ lastOp' = Op("reset_root_state", TRUE, Err, Zero3)
    /\ UNCHANGED <<phase, env_cfg, num_envs, viewer, restarted, _root_state, saved_root_state,
                   _visualize_link_present, robot_indices, obstacle_indices,
                   _robot_indices, dof_sinks, seen_obstacles>>

-----------------------------------------------------------------------------
(* stop_sim / add_to_envs *)

(* The attributes __init__ and start_sim assign on self *)
AssignedAttributes ==
    {"_gym", "env_cfg", "device", "cfg", "interactive_goal", "num_envs", "restarted",
     "_sim", "viewer", "envs", "_visualize_link_present", "_root_state",
     "saved_root_state", "_dof_state", "_rigid_body_state", "_net_contact_force",
     "visualize_link_buffer", "robot_indices", "obstacle_indices",
     "visualize_link_pos", "robot_rigid_body_viz_idx"}

(* Lines 413-418: every path of stop_sim reads self.gym (destroy_viewer,
   destroy_env, destroy_sim) and self.sim; it raises AttributeError unless both
   are attributes of the object *)
StopSimRaises == "gym" \notin AssignedAttributes \/ "sim" \notin AssignedAttributes

MaxActors == 3      \* descriptors are appended while the list is shorter than MaxActors + 1

(* self.stop_sim(); self.start_sim() on the descriptor list cfg1, as the last
   statements of the operation called name; extra holds the operation's own
   history fields *)
Restart(cfg1, name, extra) ==
    IF StopSimRaises
    THEN /\ env_cfg' = cfg1
         /\ lastOp' = extra @@ Op(name, FALSE, Err, Zero3)
         /\ UNCHANGED <<phase, restarted, saved_root_state, _visualize_link_present,
                        visualize_link_buffer, robot_indices, obstacle_indices, dof_sinks>>
    ELSE LET r == StartSim(cfg1, restarted, num_envs)
         IN  /\ ApplyStartSim(r)
             /\ lastOp' = extra @@ Op(name, r.stage = "done", Err, Zero3)
             /\ UNCHANGED phase

(* Lines 420-424 *)
add_to_envs(additions) ==
    /\ phase = "ready"
    /\ Len(env_cfg) + Len(additions) <= MaxActors + 1
    /\ Restart(env_cfg \o additions, "add_to_envs", <<>>)
    /\ IF StopSimRaises THEN UNCHANGED <<_root_state, sim_root_state>> ELSE TRUE
    /\ UNCHANGED <<num_envs, viewer, _robot_indices, seen_obstacles>>

AddToEnvs == \E additions \in { <<ExtraBox>> } : add_to_envs(additions)

-----------------------------------------------------------------------------
(* apply_robot_cmd.  Commands are in tenths, like lengths. *)

MaxCols == 3        \* columns of the command tensor range over 0..MaxCols

RECURSIVE SumDofs(_, _)
SumDofs(cfg, n) == IF n = 0 THEN 0 ELSE Len(cfg[n].dofs) + SumDofs(cfg, n - 1)

(* self._dof_state.size()[1] // 2: the DOFs of the actors of the built sim *)
SessionDofs == SumDofs(env_cfg, NumActors)

(* Lines 507-519 on one row u = <<v, w>>:
   (v / r) - (L * w) / (2 * r) and (v / r) + (L * w) / (2 * r).
   In tenths that is (20 v -/+ L w) / (2 r); the commands of CmdVals make it exact. *)
_ik(actor, u) ==
    LET r == actor.wheel_radius
        L == actor.wheel_base
    IN  << (20 * u[1] - L * u[2]) \div (2 * r), (20 * u[1] + L * u[2]) \div (2 * r) >>

(* The state of the loops of lines 529-562: the tensor row u (0-based columns,
   the same in every env for a broadcast command), the cursor u_desired_idx,
   the last dof_mode, and whether a statement raised *)
CmdStart == [u |-> [k \in 0..(SessionDofs - 1) |-> 0], idx |-> 0, dof_mode |-> "None", raised |-> FALSE]

(* Lines 549-556: one joint of dof_dict.items(); i is the joint's index within its actor *)
CmdJoint(st, actor, wheels, name, i, u_desired) ==
    IF st.raised THEN st
    ELSE IF actor.differential_drive /\ name \in actor.left_wheel_joints
         THEN [st EXCEPT !.u[i] = wheels[1]]
    ELSE IF actor.differential_drive /\ name \in actor.right_wheel_joints
         THEN [st EXCEPT !.u[i] = wheels[2]]
    ELSE IF st.idx + 1 \in 1..Len(u_desired)
         THEN [st EXCEPT !.u[i] = u_desired[st.idx + 1], !.idx = st.idx + 1]
    ELSE [st EXCEPT !.raised = TRUE]

RECURSIVE CmdJoints(_, _, _, _, _)
CmdJoints(st, actor, wheels, k, u_desired) ==
    IF k > Len(actor.dofs) THEN st
    ELSE CmdJoints(CmdJoint(st, actor, wheels, actor.dofs[k], k - 1, u_desired),
                   actor, wheels, k + 1, u_desired)

(* Column c of a row, negative c counted from the end as the tensor index does *)
Col(u, c) == IF c < 0 THEN c + SessionDofs ELSE c

(* Lines 558-562, the four masked writes in their order *)
GripperOverride(u, count) ==
    LET c1 == Col(u, count - 1)
        c2 == Col(u, count - 2)
        u1 == IF u[c1] > 0 THEN [u EXCEPT ![c1] = 1] ELSE u
        u2 == IF u1[c1] >= 0 THEN [u1 EXCEPT ![c1] = -1] ELSE u1
        u3 == IF u2[c1] > 0 THEN [u2 EXCEPT ![c2] = 1] ELSE u2
        u4 == IF u3[c1] >= 0 THEN [u3 EXCEPT ![c2] = -1] ELSE u3
    IN  u4

(* Lines 531-562: one descriptor of the loop *)
CmdActor(st, actor, u_desired) ==
    IF st.raised \/ actor.type # "robot" THEN st
    ELSE
    LET mode == actor.dof_mode
        \* line 534 assigns dof_mode before line 536 compares it with actor.dof_mode
        mismatch == mode # "None" /\ mode # actor.dof_mode
        st1 == [st EXCEPT !.dof_mode = mode]
    IN  IF mismatch \/ actor.handle = NoHandle
        THEN [st1 EXCEPT !.raised = TRUE]
        ELSE IF actor.differential_drive /\ Len(u_desired) < 2
        THEN [st1 EXCEPT !.raised = TRUE]
        ELSE
        LET wheels == IF actor.differential_drive
                      THEN _ik(actor, <<u_desired[1], u_desired[2]>>) ELSE <<0, 0>>
            st2 == IF actor.differential_drive THEN [st1 EXCEPT !.idx = st1.idx + 2] ELSE st1
            st3 == CmdJoints(st2, actor, wheels, 1, u_desired)
        IN  IF ~st3.raised /\ actor.name = "panda_gripper"
            THEN [st3 EXCEPT !.u = GripperOverride(st3.u, Len(actor.dofs))]
            ELSE st3

RECURSIVE CmdActors(_, _, _)
CmdActors(st, k, u_desired) ==
    IF k > Len(env_cfg) THEN st
    ELSE CmdActors(CmdActor(st, env_cfg[k], u_desired), k + 1, u_desired)

(* Lines 564-569: the sink the assembled tensor goes to *)
Dispatch(sinks, dof_mode, u) ==
    CASE dof_mode = "effort"   -> [sinks EXCEPT !.actuation_force = Some(u)]
      [] dof_mode = "velocity" -> [sinks EXCEPT !.velocity_target = Some(u)]
      [] dof_mode = "position" -> [sinks EXCEPT !.dof_state = Some(u)]
      [] OTHER                 -> sinks

(* Lines 521-569.  u_desired is a 1-D command, the row every env receives. *)
apply_robot_cmd(u_desired) ==
    /\ phase = "ready"
    /\ LET st == CmdActors(CmdStart, 1, u_desired)
           u == [e \in Envs |-> st.u]
       IN  /\ dof_sinks' = IF st.raised THEN dof_sinks ELSE Dispatch(dof_sinks, st.dof_mode, u)
           /\ lastOp' = [ncols |-> Len(u_desired)] @@ Op("apply_robot_cmd", ~st.raised, Err, Zero3)
    /\ UNCHANGED <<phase, env_cfg, num_envs, viewer, restarted, _root_state, sim_root_state,
                   saved_root_state, _visualize_link_present, visualize_link_buffer,
                   robot_indices, obstacle_indices, _robot_indices, seen_obstacles>>

CmdVals == {-10, 0, 10, 20}

ApplyRobotCmd ==
    \E n \in 0..MaxCols : \E u_desired \in [1..n -> CmdVals] : apply_robot_cmd(u_desired)

-----------------------------------------------------------------------------
(* update_root_state_tensor_by_obstacles *)

(* f"{o_type}{i}" for o_type = "sphere" *)
SphereNames == <<"sphere0", "sphere1", "sphere2">>
SphereName(i) == SphereNames[i + 1]

(* Lines 710-720: the descriptor appended for a name no actor has *)
NewSphere(name, o_size) ==
    ActorWrapper("sphere", name, "velocity", Zero3, o_size, <<>>, FALSE, FALSE)

(* [*pos, 0, 0, 0, 1, *vel, 0, 0, 0] *)
ObstState(pos, vel) == [pos |-> pos, ori |-> IdQuat, vel |-> vel, ang |-> Zero3]

(* Lines 699-734, one entry of enumerate(obstacles.values()).  The loop state:
   the descriptor list, the wrapper's tensor, env_cfg_changed, whether a
   statement raised, and (history) that a name had no actor *)
ObstEntry(st, i, obst) ==
    IF st.raised THEN st
    ELSE
    LET name == SphereName(i)
        obst_idx == IndexOfName(st.cfg, name)
    IN  IF obst_idx = Err
        THEN [st EXCEPT !.cfg = Append(st.cfg, NewSphere(name, obst.size)),
                        !.changed = TRUE, !.unmatched = TRUE]
        ELSE
        LET st1 == IF obst.size # st.cfg[obst_idx + 1].size
                   THEN [st EXCEPT !.changed = TRUE, !.cfg[obst_idx + 1].size = obst.size]
                   ELSE st
        IN  IF ~InRange(obst_idx)
            THEN [st1 EXCEPT !.raised = TRUE]        \* line 734: index past the tensor's actors
            ELSE [st1 EXCEPT !.buf =
                     [e \in DOMAIN st.buf |->
                         [st.buf[e] EXCEPT ![obst_idx] = ObstState(obst.position, obst.velocity)]]]

RECURSIVE ObstLoop(_, _, _)
ObstLoop(st, k, obstacles) ==
    IF k > Len(obstacles) THEN st
    ELSE ObstLoop(ObstEntry(st, k - 1, obstacles[k]), k + 1, obstacles)

(* History: every id of the mapping was reconciled in an earlier call, and its
   size is the size stored for the actor it was reconciled with *)
KnownSameSize(obstacles) ==
    \A k \in 1..Len(obstacles) :
        /\ obstacles[k].id \in DOMAIN seen_obstacles
        /\ LET ix == IndexOfName(env_cfg, seen_obstacles[obstacles[k].id])
           IN  ix # Err /\ env_cfg[ix + 1].size = obstacles[k].size

(* History: ids keep the actor name they were first reconciled with, in a call that returned *)
Seen(obstacles) ==
    LET ids == { obstacles[k].id : k \in 1..Len(obstacles) }
        pos(id) == CHOOSE k \in 1..Len(obstacles) : obstacles[k].id = id
    IN  [id \in DOMAIN seen_obstacles \cup ids |->
            IF id \in DOMAIN seen_obstacles THEN seen_obstacles[id] ELSE SphereName(pos(id) - 1)]

(* Lines 692-743.  obstacles is the mapping's values in order, each with the id
   it is stored under.  The function has no return statement. *)
update_root_state_tensor_by_obstacles(obstacles) ==
    /\ phase = "ready"
    /\ LET st == ObstLoop([cfg |-> env_cfg, buf |-> _root_state, changed |-> FALSE,
                           raised |-> FALSE, unmatched |-> FALSE], 1, obstacles)
           hist == [obstacles |-> obstacles, unmatched |-> st.unmatched,
                    known |-> KnownSameSize(obstacles),
                    teardown |-> ~st.raised /\ st.changed]
       IN  /\ Len(st.cfg) <= MaxActors + 1
           /\ IF st.raised
              THEN /\ env_cfg' = st.cfg
                   /\ _root_state' = st.buf
                   /\ lastOp' = [returned |-> "raised"] @@ hist
                                   @@ Op("update_obstacles", FALSE, Err, Zero3)
                   /\ UNCHANGED <<phase, restarted, sim_root_state, saved_root_state,
                                  _visualize_link_present, visualize_link_buffer,
                                  robot_indices, obstacle_indices, dof_sinks>>
              ELSE IF st.changed
              THEN /\ Restart(st.cfg, "update_obstacles",
                              [returned |-> IF StopSimRaises THEN "raised" ELSE "None"] @@ hist)
                   /\ IF StopSimRaises
                      THEN _root_state' = st.buf /\ UNCHANGED sim_root_state
                      ELSE TRUE
              ELSE /\ _root_state' = st.buf
                   /\ sim_root_state' = SetRootState(sim_root_state, st.buf)
                   /\ lastOp' = [returned |-> "None"] @@ hist
                                   @@ Op("update_obstacles", TRUE, Err, Zero3)
                   /\ UNCHANGED <<phase, env_cfg, restarted, saved_root_state,
                                  _visualize_link_present, visualize_link_buffer,
                                  robot_indices, obstacle_indices, dof_sinks>>
    /\ seen_obstacles' = IF lastOp'.ok THEN Seen(obstacles) ELSE seen_obstacles
    /\ UNCHANGED <<num_envs, viewer, _robot_indices>>

ObstacleIds == {"A", "B"}
Sizes == {1, 2}
Observed == { [position |-> Zero3, velocity |-> Zero3],
              [position |-> <<1, 0, 0>>, velocity |-> <<1, 0, 0>>] }

Obstacle(id, o, size) ==
    [id |-> id, position |-> o.position, velocity |-> o.velocity, size |-> size]

ObstacleEntries == { Obstacle(id, o, size) : id \in ObstacleIds, o \in Observed, size \in Sizes }

(* The mappings: up to two entries under distinct ids *)
ObstacleMaps ==
    { <<>> } \cup { <<a>> : a \in ObstacleEntries }
             \cup { m \in { <<a, b>> : a, b \in ObstacleEntries } : m[1].id # m[2].id }

UpdateObstacles == \E obstacles \in ObstacleMaps : update_root_state_tensor_by_obstacles(obstacles)

-----------------------------------------------------------------------------
(* Specifications.  Every one starts from the constructor call; they differ in
   the operations the caller then uses.                                      *)

Uncounted == UNCHANGED ops
Counted == ops < MaxOps /\ ops' = ops + 1
CountedFeed == ops < MaxFeedOps /\ ops' = ops + 1

(* Sessions without a viewer: no keyboard events reach step() *)
InitHeadless == Init /\ viewer = FALSE

(* The two-actor lists *)
InitSmall == InitHeadless /\ Len(env_cfg) <= 2

(* Reads and single-actor writes between simulation steps *)
NextWrite ==
    \/ Construct /\ Uncounted
    \/ SetPosition /\ Uncounted
    \/ SetVelocity /\ Uncounted
    \/ Step /\ Uncounted

SpecWrite == InitSmall /\ [][NextWrite]_vars

(* Snapshot and restore among steps and writes, runs of at most MaxOps operations *)
NextSnapshot ==
    \/ Construct /\ Counted
    \/ SetPosition /\ Counted
    \/ SetVelocity /\ Counted
    \/ Step /\ Counted
    \/ save_root_state /\ Counted
    \/ reset_root_state /\ Counted

SpecSnapshot == InitSmall /\ [][NextSnapshot]_vars

(* Command dispatch on every actor list *)
NextCmd ==
    \/ Construct /\ Uncounted
    \/ ApplyRobotCmd /\ Uncounted

SpecCmd == InitHeadless /\ [][NextCmd]_vars

(* The obstacle feed, on the lists that hold sphere actors beside a robot *)
InitObstacles ==
    InitHeadless /\ env_cfg \in { <<PointRobot, Sphere0>>, <<PointRobot, Sphere0, Sphere1>> }

NextObstacles ==
    \/ Construct /\ CountedFeed
    \/ UpdateObstacles /\ CountedFeed
    \/ AddToEnvs /\ CountedFeed
    \/ Step /\ CountedFeed

SpecObstacles == InitObstacles /\ [][NextObstacles]_vars

(* Actor lists in which two descriptors carry one name: load_actor_cfgs(actors)
   loads one descriptor per entry of actors and compares no names *)
DuplicateNameConfigs ==
    { <<PointRobot, Sphere0, Sphere0>>,
      <<PointRobot, PointRobot>> }

(* The state before the constructor runs, for the actor lists of cfgs *)
InitOver(cfgs) ==
    /\ phase = "new"
    /\ env_cfg \in cfgs
    /\ num_envs \in 1..MaxEnvs
    /\ viewer \in BOOLEAN
    /\ restarted = 0
    /\ _root_state = <<>>
    /\ sim_root_state = <<>>
    /\ saved_root_state = None
    /\ _visualize_link_present = FALSE
    /\ visualize_link_buffer = <<>>
    /\ robot_indices = <<>>
    /\ obstacle_indices = <<>>
    /\ _robot_indices = None
    /\ dof_sinks = EmptySinks
    /\ seen_obstacles = <<>>
    /\ lastOp = Op("none", TRUE, Err, Zero3)
    /\ ops = 0

(* The constructor on any actor list, the lists with a repeated name included *)
InitBuild == InitOver(Configs \cup DuplicateNameConfigs) /\ viewer = FALSE

(* Build, then writes by name or index and descriptors added at run time *)
NextBuild ==
    \/ Construct /\ Counted
    \/ SetPosition /\ Counted
    \/ AddToEnvs /\ Counted

SpecBuild == InitBuild /\ [][NextBuild]_vars

(* Lists in which a differential-drive robot follows another robot *)
CursorConfigs ==
    { <<GoalActor, ArmRobot, BoxerRobot>> }

InitCursor == InitOver(Configs \cup CursorConfigs) /\ viewer = FALSE

(* Command dispatch, the lists of CursorConfigs included *)
NextCursor ==
    \/ Construct /\ Uncounted
    \/ ApplyRobotCmd /\ Uncounted

SpecCursor == InitCursor /\ [][NextCursor]_vars

(* Sessions with a viewer, on the lists that hold a goal actor beside a robot *)
InitViewer ==
    /\ InitOver({ <<GoalActor, PointRobot>>, <<GoalActor, PointRobot, ArmRobot>> })
    /\ viewer = TRUE

(* Steps that deliver keyboard events, the link trace emptied in between *)
NextViewer ==
    \/ Construct /\ Uncounted
    \/ Step /\ Uncounted
    \/ reset_root_state /\ Uncounted

SpecViewer == InitViewer /\ [][NextViewer]_vars

-----------------------------------------------------------------------------
(* Properties *)

(* C1: after a session build, for every robot descriptor the lookups by name,
   by robot index and by raw actor index all succeed and return the same
   root-state rows, for the position, velocity and orientation getters. *)
C1_ResolutionPathsAgree ==
    phase = "ready" =>
        \A k \in 0..(Len(robot_indices) - 1) :
            LET i == robot_indices[k + 1]
                nm == env_cfg[i + 1].name
            IN  /\ ~IsNone(get_actor_position_by_actor_index(i))
                /\ get_actor_position_by_name(nm) = get_actor_position_by_actor_index(i)
                /\ get_actor_position_by_robot_index(k) = get_actor_position_by_actor_index(i)
                /\ ~IsNone(get_actor_velocity_by_actor_index(i))
                /\ get_actor_velocity_by_name(nm) = get_actor_velocity_by_actor_index(i)
                /\ get_actor_velocity_by_robot_index(k) = get_actor_velocity_by_actor_index(i)
                /\ ~IsNone(get_actor_orientation_by_actor_index(i))
                /\ get_actor_orientation_by_name(nm) = get_actor_orientation_by_actor_index(i)
                /\ get_actor_orientation_by_robot_index(k) = get_actor_orientation_by_actor_index(i)

(* C2: for every descriptor list with unique names (lists without a robot
   included), the constructor returns and leaves every descriptor with a handle
   that is not None, no two descriptors sharing a handle. *)
C2_BuildAssignsDistinctHandles ==
    (phase # "new" /\ UniqueNames(env_cfg)) =>
        /\ phase = "ready"
        /\ \A i \in 1..Len(env_cfg) : env_cfg[i].handle # NoHandle
        /\ \A i, j \in 1..Len(env_cfg) : env_cfg[i].handle = env_cfg[j].handle => i = j

(* C3: a position write for one actor (by actor index, name or robot index)
   leaves every other actor's root-state row unchanged, in the wrapper's tensor
   and in the backend, in every environment. *)
C3_SetPositionIsolation ==
    [][lastOp'.op = "set_position" =>
        /\ DOMAIN _root_state' = DOMAIN _root_state
        /\ \A e \in Envs : \A i \in Actors :
              i # lastOp'.actor =>
                 /\ _root_state'[e][i] = _root_state[e][i]
                 /\ sim_root_state'[e][i] = sim_root_state[e][i]]_vars

C3_Witness ==
    /\ lastOp.op = "set_position" /\ lastOp.ok
    /\ num_envs > 1
    /\ \E i \in Actors :
          /\ i # lastOp.actor
          /\ _root_state[1][i].pos # env_cfg[i + 1].init_pos
          /\ sim_root_state[1][i] # _root_state[1][i]

(* C4: after a position or velocity write for actor a with value p, the
   backend's state of actor a equals p in every environment. *)
C4_WriteReachesEveryEnv ==
    (lastOp.op \in {"set_position", "set_velocity"} /\ lastOp.ok) =>
        \A e \in Envs :
            sim_root_state[e][lastOp.actor][IF lastOp.op = "set_position" THEN "pos" ELSE "vel"]
                = lastOp.value

(* C5 as stated: after save_root_state ... reset_root_state, with steps and
   writes in between, the wrapper's tensor and the backend both equal the
   snapshot. *)
C5_RegistryAndBackendEqualSnapshot ==
    (lastOp.op = "reset_root_state" /\ ~IsNone(saved_root_state)) =>
        /\ sim_root_state = Val(saved_root_state)
        /\ _root_state = Val(saved_root_state)

(* C5 amended: save_root_state stores the wrapper's tensor as it is then; steps,
   writes and restores leave the stored copy alone; reset_root_state makes the
   backend's root state equal to the stored copy and leaves the wrapper's own
   tensor as it was. *)
C5_RestoreReappliesSnapshot ==
    /\ []((lastOp.op = "reset_root_state" /\ ~IsNone(saved_root_state))
             => sim_root_state = Val(saved_root_state))
    /\ [][lastOp'.op = "save_root_state" => saved_root_state' = Some(_root_state)]_vars
    /\ [][lastOp'.op \in {"step", "set_position", "set_velocity", "reset_root_state"}
             => saved_root_state' = saved_root_state]_vars
    /\ [][lastOp'.op = "reset_root_state" => _root_state' = _root_state]_vars

C5_Witness ==
    /\ lastOp.op = "reset_root_state"
    /\ ~IsNone(saved_root_state)
    /\ num_envs > 1
    /\ Val(saved_root_state) # InitialRootState(env_cfg, num_envs)
    /\ _root_state # Val(saved_root_state)
    /\ Val(saved_root_state)[1] # Val(saved_root_state)[0]

(* C6 as stated: reset_root_state with nothing saved raises nothing and leaves
   the wrapper's tensor, the backend state and the link trace unchanged. *)
C6_RestoreWithoutSaveChangesNothing ==
    [][(lastOp'.op = "reset_root_state" /\ IsNone(saved_root_state)) =>
          /\ lastOp'.ok
          /\ UNCHANGED <<_root_state, sim_root_state, visualize_link_buffer>>]_vars

(* C6 amended: reset_root_state with nothing saved raises nothing and leaves
   the wrapper's tensor and the backend state unchanged; the link trace is
   emptied when a traced link is present. *)
C6_RestoreWithoutSaveKeepsRootState ==
    [][(lastOp'.op = "reset_root_state" /\ IsNone(saved_root_state)) =>
          /\ lastOp'.ok
          /\ UNCHANGED <<_root_state, sim_root_state>>
          /\ visualize_link_buffer' =
                IF _visualize_link_present THEN <<>> ELSE visualize_link_buffer]_vars

C6_Witness ==
    /\ lastOp.op = "reset_root_state"
    /\ IsNone(saved_root_state)
    /\ _visualize_link_present
    /\ num_envs > 1
    /\ sim_root_state # _root_state

(* C7: reconciling a mapping that holds an obstacle with no matching actor
   appends a sphere descriptor, rebuilds the session so that every reconciled
   name has a handle and a root-state row, and returns rebuilt = true. *)
C7_UnseenObstacleRebuilds ==
    (lastOp.op = "update_obstacles" /\ lastOp.unmatched) =>
        /\ lastOp.ok
        /\ lastOp.returned = "True"
        /\ \A k \in 1..Len(lastOp.obstacles) :
              LET ix == IndexOfName(env_cfg, SphereName(k - 1))
              IN  ix # Err /\ env_cfg[ix + 1].handle # NoHandle /\ InRange(ix)

(* C8: reconciling a mapping whose ids were all seen in an earlier call, with
   the sizes stored for their actors, tears nothing down and sets the row of
   the actor that belongs to each id to the observed position and velocity in
   every environment, whatever other ids the mapping holds and in whatever
   order. *)
C8_KnownObstaclesUpdatedInPlace ==
    (lastOp.op = "update_obstacles" /\ lastOp.known) =>
        /\ lastOp.ok
        /\ ~lastOp.teardown
        /\ \A k \in 1..Len(lastOp.obstacles) : \A e \in Envs :
              LET o == lastOp.obstacles[k]
                  ix == IndexOfName(env_cfg, seen_obstacles[o.id])
              IN  /\ InRange(ix)
                  /\ _root_state[e][ix].pos = o.position
                  /\ _root_state[e][ix].vel = o.velocity

(* The command columns the robots of a descriptor list take: two for a
   differential drive plus one per joint that is no wheel, else one per joint *)
RECURSIVE ExpectedColumns(_, _)
ExpectedColumns(cfg, n) ==
    IF n = 0 THEN 0
    ELSE ExpectedColumns(cfg, n - 1) +
         (IF cfg[n].type # "robot" THEN 0
          ELSE IF cfg[n].differential_drive
               THEN 2 + Cardinality({ k \in 1..Len(cfg[n].dofs) :
                                        cfg[n].dofs[k] \notin cfg[n].left_wheel_joints
                                                                \cup cfg[n].right_wheel_joints })
               ELSE Len(cfg[n].dofs))

(* C9: a command whose column count differs from the active DOFs of all robot
   descriptors fails and changes no backend sink. *)
C9_DimensionMismatchRejected ==
    [][(lastOp'.op = "apply_robot_cmd" /\ lastOp'.ncols # ExpectedColumns(env_cfg, Len(env_cfg)))
          => (~lastOp'.ok /\ dof_sinks' = dof_sinks)]_vars

MixedDriveModes(cfg) ==
    \E i, j \in 1..Len(cfg) :
        cfg[i].type = "robot" /\ cfg[j].type = "robot" /\ cfg[i].dof_mode # cfg[j].dof_mode

(* C10: with two robot descriptors of different drive modes, a command
   dispatch on the built session fails and changes no backend sink. *)
C10_MixedDriveModesRejected ==
    [][(lastOp'.op = "apply_robot_cmd" /\ MixedDriveModes(env_cfg))
          => (~lastOp'.ok /\ dof_sinks' = dof_sinks)]_vars

(* C11: building from a list in which two descriptors share a name fails, and
   no built session holds two descriptors of one name. *)
C11_BuiltSessionHasUniqueNames ==
    phase = "ready" => UniqueNames(env_cfg)

(* A rebuild that stopped part-way: the session in use was built without a
   descriptor the list holds by now (its handle is still None) *)
RebuildFailed ==
    phase = "ready" /\ \E i \in 1..Len(env_cfg) : env_cfg[i].handle = NoHandle

(* C12: once a rebuild has failed part-way, every later read, write, command
   or step fails until the session is built again, instead of running on the
   previous session's tensors. *)
C12_NoOperationAfterFailedRebuild ==
    [][RebuildFailed => ~lastOp'.ok]_vars

(* The slot of a descriptor's first joint in the session's DOF tensor: the
   joints of the descriptors before it come first *)
DofOffset(cfg, k) == SumDofs(cfg, k - 1)

(* The attribute of dof_sinks that a drive mode's backend call fills *)
SinkOf(dof_mode) ==
    CASE dof_mode = "effort"   -> "actuation_force"
      [] dof_mode = "velocity" -> "velocity_target"
      [] dof_mode = "position" -> "dof_state"

(* v/r - L*w/(2r) and v/r + L*w/(2r), v and w in tenths like r and L *)
LeftWheelSpeed(actor, v, w) ==
    (20 * v - actor.wheel_base * w) \div (2 * actor.wheel_radius)
RightWheelSpeed(actor, v, w) ==
    (20 * v + actor.wheel_base * w) \div (2 * actor.wheel_radius)

(* C13: for every differential-drive robot, a dispatched command (v, w) leaves
   v/r - L*w/(2r) on each of its left wheel joints and v/r + L*w/(2r) on each
   of its right wheel joints, in every environment. *)
C13_WheelJointsReceiveDriveSpeeds ==
    [][\A n \in 2..MaxCols : \A u_desired \in [1..n -> CmdVals] :
          (apply_robot_cmd(u_desired) /\ lastOp'.ok) =>
             \A k \in 1..Len(env_cfg) :
                (env_cfg[k].type = "robot" /\ env_cfg[k].differential_drive) =>
                   \A j \in 1..Len(env_cfg[k].dofs) : \A e \in Envs :
                      LET actor == env_cfg[k]
                          sink == Val(dof_sinks'[SinkOf(actor.dof_mode)])[e]
                          slot == DofOffset(env_cfg, k) + j - 1
                      IN  /\ actor.dofs[j] \in actor.left_wheel_joints
                               => sink[slot] = LeftWheelSpeed(actor, u_desired[1], u_desired[2])
                          /\ actor.dofs[j] \in actor.right_wheel_joints
                               => sink[slot] = RightWheelSpeed(actor, u_desired[1], u_desired[2])]_vars

(* The joints of actor before joint j that are no wheel of a differential drive *)
PlainJointsBefore(actor, j) ==
    Cardinality({ i \in 1..(j - 1) :
        ~(actor.differential_drive
          /\ actor.dofs[i] \in actor.left_wheel_joints \cup actor.right_wheel_joints) })

(* The row of the full-DOF tensor for the descriptors k.. when one cursor
   (1-based, at cursor) runs over the columns of u_desired: a differential
   drive takes its (v, w) at the cursor, every other joint the next column,
   and each value goes to the joint's own slot *)
RECURSIVE SharedCursorRow(_, _, _, _)
SharedCursorRow(cfg, k, cursor, u_desired) ==
    IF k > Len(cfg) THEN <<>>
    ELSE IF cfg[k].type # "robot" THEN SharedCursorRow(cfg, k + 1, cursor, u_desired)
    ELSE
    LET actor == cfg[k]
        base == IF actor.differential_drive THEN cursor + 2 ELSE cursor
        vals == [j \in 1..Len(actor.dofs) |->
                    IF actor.differential_drive /\ actor.dofs[j] \in actor.left_wheel_joints
                    THEN LeftWheelSpeed(actor, u_desired[cursor], u_desired[cursor + 1])
                    ELSE IF actor.differential_drive /\ actor.dofs[j] \in actor.right_wheel_joints
                    THEN RightWheelSpeed(actor, u_desired[cursor], u_desired[cursor + 1])
                    ELSE u_desired[base + PlainJointsBefore(actor, j)]]
    IN  vals \o SharedCursorRow(cfg, k + 1,
                                base + PlainJointsBefore(actor, Len(actor.dofs) + 1), u_desired)

(* The drive mode the dispatch of lines 564-569 sees: the last robot's *)
LastRobotMode(cfg) == Robots(cfg)[Len(Robots(cfg))].dof_mode

(* C14: the columns of a command are consumed left to right by one cursor
   shared by all robots in registration order (a differential drive takes its
   pair at the cursor, every other joint the next column), and every robot's
   values are written to its own slots of the full-DOF tensor. *)
C14_SharedCursorFillsOwnSlots ==
    [][\A n \in 1..MaxCols : \A u_desired \in [1..n -> CmdVals] :
          (/\ apply_robot_cmd(u_desired)
           /\ lastOp'.ok
           /\ n = ExpectedColumns(env_cfg, Len(env_cfg))
           /\ \A k \in 1..Len(env_cfg) : env_cfg[k].name # "panda_gripper") =>
             \A e \in Envs :
                LET sink == Val(dof_sinks'[SinkOf(LastRobotMode(env_cfg))])[e]
                    row == SharedCursorRow(env_cfg, 1, 1, u_desired)
                IN  \A slot \in 0..(Len(row) - 1) : sink[slot] = row[slot + 1]]_vars

(* The fixed targets of lines 559-562, in tenths: 0.1 and -0.1 *)
GripperClose == 1
GripperOpen == -1

(* C15: for a robot named panda_gripper both of its last two DOF targets are
   overridden by the threshold policy: where the gripper command is > 0 both
   take the close value, otherwise both take the open value. *)
C15_GripperThresholdPolicy ==
    [][\A n \in 1..MaxCols : \A u_desired \in [1..n -> CmdVals] :
          (/\ apply_robot_cmd(u_desired)
           /\ lastOp'.ok
           /\ n = ExpectedColumns(env_cfg, Len(env_cfg))) =>
             \A k \in 1..Len(env_cfg) :
                (env_cfg[k].type = "robot" /\ env_cfg[k].name = "panda_gripper") =>
                   \A e \in Envs :
                      LET sink == Val(dof_sinks'[SinkOf(LastRobotMode(env_cfg))])[e]
                          last == DofOffset(env_cfg, k) + Len(env_cfg[k].dofs) - 1
                          command == SharedCursorRow(env_cfg, 1, 1, u_desired)[last + 1]
                          target == IF command > 0 THEN GripperClose ELSE GripperOpen
                      IN  sink[last] = target /\ sink[last - 1] = target]_vars

(* The change of the goal's position one event stands for (lines 622-633);
   opposite events have opposite displacements *)
Displacement(action) ==
    CASE action = "up"    -> <<0, -delta_pos, 0>>
      [] action = "down"  -> <<0, delta_pos, 0>>
      [] action = "left"  -> <<delta_pos, 0, 0>>
      [] action = "right" -> <<-delta_pos, 0, 0>>
      [] action = "high"  -> <<0, 0, delta_pos>>
      [] action = "low"   -> <<0, 0, -delta_pos>>

(* C16: a step that processes one viewer event moves the goal actor by 0.1
   along the event's axis in every environment, in the wrapper's tensor and in
   the backend, and leaves every other actor where the physics step put it. *)
C16_EventMovesGoalInEveryEnv ==
    [][\A ev \in Events :
          (step(<<ev>>) /\ lastOp'.ok) =>
             LET after == Simulate(sim_root_state)
                 goal == IndexOfName(env_cfg, "goal")
             IN  \A e \in Envs :
                    /\ _root_state'[e][goal].pos = Add3(after[e][goal].pos, Displacement(ev))
                    /\ sim_root_state'[e][goal].pos = Add3(after[e][goal].pos, Displacement(ev))
                    /\ \A i \in Actors \ {goal} :
                          /\ _root_state'[e][i] = after[e][i]
                          /\ sim_root_state'[e][i] = after[e][i]]_vars

(* The last operation was one that rebuilds the session: add_to_envs, or an
   obstacle reconciliation that found a change *)
RebuildRequested ==
    \/ lastOp.op = "add_to_envs"
    \/ lastOp.op = "update_obstacles" /\ lastOp.teardown

(* C17: after every session rebuild the descriptor list holds exactly one
   descriptor named dummy, it is the last one, and the obstacle index set does
   not include it. *)
C17_OneTrailingDummyAfterRebuild ==
    RebuildRequested =>
        /\ Cardinality({ i \in 1..Len(env_cfg) : env_cfg[i].name = "dummy" }) = 1
        /\ env_cfg[Len(env_cfg)].name = "dummy"
        /\ \A k \in 1..Len(obstacle_indices) : env_cfg[obstacle_indices[k] + 1].name # "dummy"

(* C18: when an obstacle reconciliation is over, the backend's root state of
   the actor of every observed obstacle (entry k, actor sphere<k>) holds the
   observed position and velocity in every environment, also when the call
   rebuilt the session. *)
C18_BackendHoldsObservations ==
    (lastOp.op = "update_obstacles" /\ (lastOp.ok \/ lastOp.teardown)) =>
        \A k \in 1..Len(lastOp.obstacles) : \A e \in Envs :
            LET o == lastOp.obstacles[k]
                ix == IndexOfName(env_cfg, SphereName(k - 1))
            IN  /\ InRange(ix)
                /\ sim_root_state[e][ix].pos = o.position
                /\ sim_root_state[e][ix].vel = o.velocity

====
